---- MODULE Spec2Model ----
(***************************************************************************)
(* Model of gemstone-tool-frontend (src/gemstone-tool-frontend.js): the    *)
(* "frontend-build" command, its two passes (linting, bundling), the pass  *)
(* sequencer singleRun and the watch controller (handler, watcher.on).     *)
(*                                                                         *)
(* JavaScript runs one callback at a time.  Every action below is one      *)
(* callback together with all promise continuations that run before the    *)
(* next I/O completion, timer or watcher event can be delivered.           *)
(***************************************************************************)
EXTENDS Integers, Sequences, FiniteSets, TLC

\* ------------------------------------------------------------------ bounds
NumPaths == 2          \* distinct files the watcher may report
MaxEnvLen == 2         \* length of the --env value, in words
MaxTimers == 2         \* timer handles that may be outstanding at once
MaxRuns == 2           \* singleRun invocations that may be in flight at once
MaxFindings == 1       \* errors (warnings) in one bundler report

\* ------------------------------------------------------- program constants
NullTimer == 0         \* let timer = null
ImmediateDelay == 0    \* setTimeout(handler, 0.0 * 1000)
SettleDelay == 1000    \* setTimeout(handler, 1.0 * 1000)

VARIABLES
    opts,         \* the command's options: env, watch, cwd, beep
    cfgSource,    \* cfg.path.source, the watched directory (a path)
    pc,           \* func: "entry", "watch", "oneshot", "resolved", "rejected"
    header,       \* the header was written to stderr
    cwd,          \* the process's working directory
    watcher,      \* Chokidar.watch was called
    first, ready, need, changed, timer, running,   \* the watch closure's state
    timers,       \* the scheduled, not yet fired timers: [id, delay]
    runs,         \* the singleRun invocations in flight
    wpcFile,      \* .gemstone.webpack.js exists
    summary,      \* the "files changed" block of the latest handler call
    idle,         \* the idle banner is the last thing written
    exited,       \* the process was terminated by an unhandled rejection
    result,       \* what func's promise settled with: <<>> while it is pending
    finished,     \* history: the singleRun invocation that ended last
    accepted,     \* history: paths of the events accepted since the last handler start
    called,       \* history: handler has been called
    anyEvent      \* history: the watcher has delivered a filesystem event

vars == << opts, cfgSource, pc, header, cwd, watcher, first, ready, need,
           changed, timer, running, timers, runs, wpcFile, summary, idle,
           exited, result, finished, accepted, called, anyEvent >>

watchVars == << first, ready, need, changed, timer, running, timers, summary,
                idle, accepted, called, anyEvent >>

\* ----------------------------------------------------------- option values
EnvWords == {"production", "development", "staging"}

EnvAlternatives == {"production", "development"}

EnvValues == UNION {[1..n -> EnvWords] : n \in 0..MaxEnvLen}

CwdValues == {".", "app"}

\* /^(?:production|development)$/ without the m flag: the whole value is one
\* of the alternatives.  A value is a sequence of words, its concatenation.
EnvMatchUnanchored(env) == \E i \in 1..Len(env) : env[i] \in EnvAlternatives

EnvMatch(env) == \E w \in EnvAlternatives : env = <<w>>

\* ------------------------------------------------------------------- paths
\* A path is a sequence of segments; an absolute one starts with "/".
Cwd == <<"/", "cwd">>

FileNames == <<"f1", "f2", "f3", "f4">>

Files == {FileNames[k] : k \in 1..NumPaths}

SourceDirs == {<<"src">>, Cwd \o <<"src">>}

IsAbsolute(p) == Len(p) > 0 /\ p[1] = "/"

PathResolve(p) == IF IsAbsolute(p) THEN p ELSE Cwd \o p

IsPrefix(a, b) == Len(a) <= Len(b) /\ SubSeq(b, 1, Len(a)) = a

\* path.relative(process.cwd(), filename) for a file below the working directory
PathRelative(from, to) ==
    LET t == PathResolve(to)
    IN  IF IsPrefix(from, t) THEN SubSeq(t, Len(from) + 1, Len(t)) ELSE t

\* the paths Chokidar reports: the watched directory joined with the file
EventPaths == {cfgSource \o <<f>> : f \in Files}

\* ------------------------------------------------------- JavaScript values
JSBool(b) == [type |-> "boolean", val |-> IF b THEN 1 ELSE 0]

JSNum(n) == [type |-> "number", val |-> n]

ToInt32(v) == v.val

Truthy(v) == v.val # 0

\* a & b on operands that are booleans or the numbers 0 and 1
BitAnd(a, b) == JSNum(IF ToInt32(a) = 1 /\ ToInt32(b) = 1 THEN 1 ELSE 0)

\* ------------------------------------------------------------------ timers
FreshTimer(ts) == CHOOSE i \in 1..MaxTimers : \A t \in ts : t.id # i

CanSchedule(ts) == \E i \in 1..MaxTimers : \A t \in ts : t.id # i

SetTimeout(ts, delay) == ts \cup {[id |-> FreshTimer(ts), delay |-> delay]}

ClearTimeout(ts, h) == {t \in ts : t.id # h}

\* if (timer !== null) clearTimeout(timer)
ClearIfSet(ts, h) == IF h # NullTimer THEN ClearTimeout(ts, h) ELSE ts

\* ------------------------------------------------------------- the bundler
\* The bundler's stdout: the JSON text of a report, or text that is not JSON.
Outputs ==
    {[json |-> TRUE, errors |-> e, warnings |-> w] :
        e \in 0..MaxFindings, w \in 0..MaxFindings}
    \cup {[json |-> FALSE, errors |-> 0, warnings |-> 0]}

ExitCodes == {0, 2}

\* JSON.parse(stdout): throws on text that is not JSON
JSONParse(out) ==
    IF out.json
    THEN [ok |-> TRUE, stats |-> [errors |-> out.errors, warnings |-> out.warnings]]
    ELSE [ok |-> FALSE, stats |-> [errors |-> 0, warnings |-> 0]]

ConfigAfterCloseParsed(r) == ~JSONParse(r.out).ok

\* await fs.unlink(wpcFile) is the close handler's first statement: the file
\* is gone before stdout is parsed, whatever it holds
ConfigAfterClose(r) == FALSE

\* a promise is settled by the first resolve or reject only
Settle(p, s) == IF p = "pending" THEN s ELSE p

CloseSettlesByCode(out, code) ==
    LET p1 == IF JSONParse(out).ok THEN "pending" ELSE Settle("pending", "rejected")
    IN  IF code = 0 THEN Settle(p1, "resolved") ELSE Settle(p1, "rejected")

\* the close handler: reject in the catch block, then resolve in either branch
CloseSettles(out, code) ==
    LET p1 == IF JSONParse(out).ok THEN "pending" ELSE Settle("pending", "rejected")
    IN  IF code = 0 THEN Settle(p1, "resolved") ELSE Settle(p1, "resolved")

\* return (stats.errors.length === 0 && stats.warnings.length === 0)
Pass2ResultErrorsOnly(stats) == JSBool(stats.errors = 0)

Pass2Result(stats) == JSBool(stats.errors = 0 /\ stats.warnings = 0)

\* ----------------------------------------------------------------- linting
Linters == <<"JS", "HTML", "CSS", "YAML", "JSON">>

\* passed &= await linter(...)
LintAccumulate(passed, ok) == BitAnd(passed, JSBool(ok))

\* a singleRun invocation as Pass1 reaches its first await
NewRun(owner) ==
    [owner |-> owner, pc |-> "lint", rounds |-> 0, passed |-> JSBool(TRUE),
     lint |-> <<>>, pass2Calls |-> 0, code |-> 0,
     out |-> [json |-> FALSE, errors |-> 0, warnings |-> 0]]

Remove(s, i) == SubSeq(s, 1, i - 1) \o SubSeq(s, i + 1, Len(s))

\* --------------------------------------------------------------- the command
\* what func's promise can settle with
EmptyString == ""

InvalidEnvironment == "Error: invalid environment"

RawOutput == "stdout"

Entry == [pc |-> "entry", header |-> FALSE, cwd |-> ".", watcher |-> FALSE]

Thrown(e) == e.pc = "rejected"

\* if (!opts.env.match(...)) throw new Error(...)
SanityCheck(o, e) == IF ~EnvMatch(o.env) THEN [e EXCEPT !.pc = "rejected"] ELSE e

DisplayHeader(o, e) == IF Thrown(e) THEN e ELSE [e EXCEPT !.header = TRUE]

\* if (opts.cwd !== ".") process.chdir(opts.cwd)
ChangeDir(o, e) ==
    IF Thrown(e) \/ o.cwd = "." THEN e ELSE [e EXCEPT !.cwd = o.cwd]

\* continuous execution starts the filesystem watch, one-time execution a run
Dispatch(o, e) ==
    IF Thrown(e) THEN e
    ELSE IF o.watch THEN [e EXCEPT !.pc = "watch", !.watcher = TRUE]
    ELSE [e EXCEPT !.pc = "oneshot"]

\* func, up to its first await or its return
FuncBody(o) ==
    Dispatch(o, ChangeDir(o, DisplayHeader(o, SanityCheck(o, Entry))))

\* ------------------------------------------------------- the watch closure
\* the closure's variables, with what it has written last
Closure ==
    [first |-> first, ready |-> ready, need |-> need, changed |-> changed,
     timer |-> timer, running |-> running, timers |-> timers,
     summary |-> summary, idle |-> idle]

SetClosure(s) ==
    /\ first' = s.first
    /\ ready' = s.ready
    /\ need' = s.need
    /\ changed' = s.changed
    /\ timer' = s.timer
    /\ running' = s.running
    /\ timers' = s.timers
    /\ summary' = s.summary
    /\ idle' = s.idle

Range(s) == {s[k] : k \in 1..Len(s)}

\* changed[path] = true: Object.keys lists each key once, in insertion order
ObjectSet(keys, k) == IF k \in Range(keys) THEN keys ELSE Append(keys, k)

\* timer = setTimeout(handler, delay)
Schedule(s, delay) ==
    [s EXCEPT !.timers = SetTimeout(s.timers, delay), !.timer = FreshTimer(s.timers)]

RescheduleNoClear(s, delay) == Schedule(s, delay)

\* if (timer !== null) clearTimeout(timer); timer = setTimeout(handler, delay)
Reschedule(s, delay) ==
    Schedule([s EXCEPT !.timers = ClearIfSet(s.timers, s.timer)], delay)

\* watcher.on("ready")
OnReady(s) == [Schedule(s, ImmediateDelay) EXCEPT !.ready = TRUE]

OnAllUngated(s, p) ==
    IF s.ready
    THEN Reschedule([s EXCEPT !.need = TRUE, !.changed = ObjectSet(s.changed, p)],
                    SettleDelay)
    ELSE s

OnAllIgnoresReady(s, p) ==
    LET s1 == [s EXCEPT !.need = TRUE, !.changed = ObjectSet(s.changed, p)]
    IN  IF ~s1.running THEN Reschedule(s1, SettleDelay) ELSE s1

\* watcher.on("all")
OnAll(s, p) ==
    IF s.ready
    THEN LET s1 == [s EXCEPT !.need = TRUE, !.changed = ObjectSet(s.changed, p)]
         IN  IF ~s1.running THEN Reschedule(s1, SettleDelay) ELSE s1
    ELSE s

NoSummary == [shown |-> FALSE, count |-> 0, files |-> <<>>]

\* the "files changed" block: the count and one line per key of changed
ChangedSummary(keys) ==
    [shown |-> TRUE, count |-> Len(keys),
     files |-> [k \in 1..Len(keys) |-> PathRelative(Cwd, keys[k])]]

HandlerEnterKeepsChanged(s) ==
    [s EXCEPT !.running = TRUE,
              !.summary = IF ~s.first THEN ChangedSummary(s.changed) ELSE NoSummary,
              !.idle = FALSE,
              !.first = FALSE,
              !.need = FALSE]

\* handler, up to await singleRun()
HandlerEnter(s) ==
    [s EXCEPT !.running = TRUE,
              !.summary = IF ~s.first THEN ChangedSummary(s.changed) ELSE NoSummary,
              !.idle = FALSE,
              !.first = FALSE,
              !.need = FALSE,
              !.changed = <<>>]

HandlerResumeAlways(s) ==
    Reschedule([s EXCEPT !.idle = TRUE, !.running = FALSE], ImmediateDelay)

\* handler, after await singleRun() has returned
HandlerResume(s) ==
    LET s1 == [s EXCEPT !.idle = TRUE, !.running = FALSE]
    IN  IF s1.need THEN Reschedule(s1, ImmediateDelay) ELSE s1

\* ---------------------------------------------------------------- singleRun
\* Pass2, up to await fs.writeFile(...)
Pass2Enter(r) == [r EXCEPT !.pc = "writeFile", !.pass2Calls = @ + 1]

AfterPass1Always(r) == Pass2Enter(r)

\* let passed = await Pass1(); if (passed) passed = await Pass2()
AfterPass1(r) == IF Truthy(r.passed) THEN Pass2Enter(r) ELSE [r EXCEPT !.pc = "end"]

\* one doLint round: the linter's flag is folded into passed
DoLint(r, ok) ==
    [r EXCEPT !.passed = LintAccumulate(r.passed, ok),
              !.rounds = @ + 1,
              !.lint = Append(@, [ctx |-> Linters[r.rounds + 1], ok |-> ok])]

AfterLintShortCircuit(r) ==
    IF ~Truthy(r.passed) THEN [r EXCEPT !.pc = "end"]
    ELSE IF r.rounds < Len(Linters) THEN r ELSE AfterPass1(r)

\* Pass1 after a doLint round: the next doLint call, or the return to singleRun
AfterLint(r) == IF r.rounds < Len(Linters) THEN r ELSE AfterPass1(r)

\* Pass2 after the close handler has settled the promise it awaits
AfterClose(r) ==
    IF CloseSettles(r.out, r.code) = "resolved"
    THEN [r EXCEPT !.pc = "end", !.passed = Pass2Result(JSONParse(r.out).stats)]
    ELSE [r EXCEPT !.pc = "rejected"]

\* if (opts.beep) { if (passed) beep(1) else beep([ 0, 100, 500 ]) }
Beep(o, passed) ==
    IF o.beep THEN (IF Truthy(passed) THEN "beep1" ELSE "beep3") ELSE "none"

Finished(r, outcome, raw, b) ==
    [owner |-> r.owner, outcome |-> outcome, passed |-> r.passed, lint |-> r.lint,
     pass2Calls |-> r.pass2Calls, out |-> r.out, code |-> r.code, raw |-> raw,
     beep |-> b]

\* singleRun returns: its caller resumes (handler's tail, or func's return "")
SingleRunEnd(i, r) ==
    /\ runs' = Remove(runs, i)
    /\ finished' = <<Finished(r, "resolved", FALSE, Beep(opts, r.passed))>>
    /\ exited' = exited
    /\ IF r.owner = "handler"
       THEN /\ need => CanSchedule(ClearIfSet(timers, timer))
            /\ SetClosure(HandlerResume(Closure))
            /\ pc' = pc
            /\ result' = result
       ELSE /\ pc' = "resolved"
            /\ result' = <<EmptyString>>
            /\ UNCHANGED << first, ready, need, changed, timer, running, timers,
                            summary, idle >>

\* singleRun rejects: handler's promise is rejected with nobody awaiting it
\* (a warning, or the end of the process, as the runtime decides); func rejects
SingleRunReject(i, r) ==
    /\ runs' = Remove(runs, i)
    /\ finished' = <<Finished(r, "rejected", TRUE, "none")>>
    /\ UNCHANGED << first, ready, need, changed, timer, running, timers,
                    summary, idle >>
    /\ IF r.owner = "handler"
       THEN exited' \in BOOLEAN /\ pc' = pc /\ result' = result
       ELSE exited' = exited /\ pc' = "rejected" /\ result' = <<RawOutput>>

\* ------------------------------------------------------------------ actions
Init ==
    /\ opts \in [env : EnvValues, watch : BOOLEAN, cwd : CwdValues, beep : BOOLEAN]
    /\ cfgSource \in SourceDirs
    /\ pc = "entry"
    /\ header = FALSE
    /\ cwd = "."
    /\ watcher = FALSE
    /\ first = TRUE
    /\ ready = FALSE
    /\ need = FALSE
    /\ changed = <<>>
    /\ timer = NullTimer
    /\ running = FALSE
    /\ timers = {}
    /\ runs = <<>>
    /\ wpcFile = FALSE
    /\ summary = NoSummary
    /\ idle = FALSE
    /\ exited = FALSE
    /\ result = <<>>
    /\ finished = <<>>
    /\ accepted = {}
    /\ called = FALSE
    /\ anyEvent = FALSE

\* the command is invoked
Func ==
    /\ pc = "entry"
    /\ LET e == FuncBody(opts)
       IN  /\ pc' = e.pc
           /\ header' = e.header
           /\ cwd' = e.cwd
           /\ watcher' = e.watcher
           /\ runs' = IF e.pc = "oneshot" THEN <<NewRun("main")>> ELSE runs
           /\ result' = IF Thrown(e) THEN <<InvalidEnvironment>> ELSE result
    /\ UNCHANGED << opts, cfgSource, wpcFile, exited, finished >>
    /\ UNCHANGED watchVars

\* Chokidar emits "ready", once
WatcherReady ==
    /\ watcher /\ ~exited /\ ~ready
    /\ CanSchedule(timers)
    /\ SetClosure(OnReady(Closure))
    /\ UNCHANGED << opts, cfgSource, pc, header, cwd, watcher, runs, wpcFile,
                    exited, result, finished, accepted, called, anyEvent >>

\* Chokidar emits an event for path p
WatcherAll(p) ==
    /\ watcher /\ ~exited
    /\ CanSchedule(ClearIfSet(timers, timer))
    /\ SetClosure(OnAll(Closure, p))
    /\ accepted' = IF ready THEN accepted \cup {p} ELSE accepted
    /\ anyEvent' = TRUE
    /\ UNCHANGED << opts, cfgSource, pc, header, cwd, watcher, runs, wpcFile,
                    exited, result, finished, called >>

\* timer t fires: handler runs up to the first await inside singleRun
TimerFires(t) ==
    /\ ~exited
    /\ t \in timers
    /\ Len(runs) < MaxRuns
    /\ SetClosure(HandlerEnter([Closure EXCEPT !.timers = timers \ {t}]))
    /\ runs' = Append(runs, NewRun("handler"))
    /\ finished' = <<>>
    /\ accepted' = {}
    /\ called' = TRUE
    /\ UNCHANGED << opts, cfgSource, pc, header, cwd, watcher, wpcFile, exited,
                    result, anyEvent >>

\* a linter returns its flag to run i
LinterReturns(i) ==
    /\ ~exited
    /\ runs[i].pc = "lint"
    /\ \E ok \in BOOLEAN :
         LET r1 == DoLint(runs[i], ok)
             r2 == AfterLint(r1)
         IN  IF r2.pc = "end"
             THEN SingleRunEnd(i, r2)
             ELSE /\ runs' = [runs EXCEPT ![i] = r2]
                  /\ UNCHANGED << pc, exited, result, finished, first, ready, need, changed,
                                  timer, running, timers, summary, idle >>
    /\ UNCHANGED << opts, cfgSource, header, cwd, watcher, wpcFile, accepted,
                    called, anyEvent >>

\* fs.writeFile completes; the bundler is spawned
ConfigWritten(i) ==
    /\ ~exited
    /\ runs[i].pc = "writeFile"
    /\ wpcFile' = TRUE
    /\ runs' = [runs EXCEPT ![i].pc = "child"]
    /\ UNCHANGED << opts, cfgSource, pc, header, cwd, watcher, exited, result,
                    finished >>
    /\ UNCHANGED watchVars

\* the bundler's "close" event: the handler starts fs.unlink
ChildClosed(i) ==
    /\ ~exited
    /\ runs[i].pc = "child"
    /\ \E code \in ExitCodes, out \in Outputs :
         runs' = [runs EXCEPT ![i].pc = "unlink", ![i].code = code, ![i].out = out]
    /\ UNCHANGED << opts, cfgSource, pc, header, cwd, watcher, wpcFile, exited,
                    result, finished >>
    /\ UNCHANGED watchVars

\* fs.unlink completes: the output is parsed and the promise settled
ConfigUnlinked(i) ==
    /\ ~exited
    /\ runs[i].pc = "unlink"
    /\ wpcFile' = ConfigAfterClose(runs[i])
    /\ LET r1 == AfterClose(runs[i])
       IN  IF r1.pc = "end" THEN SingleRunEnd(i, r1) ELSE SingleRunReject(i, r1)
    /\ UNCHANGED << opts, cfgSource, header, cwd, watcher, accepted, called,
                    anyEvent >>

Next ==
    \/ Func
    \/ WatcherReady
    \/ \E p \in EventPaths : WatcherAll(p)
    \/ \E t \in timers : TimerFires(t)
    \/ \E i \in 1..Len(runs) : LinterReturns(i)
    \/ \E i \in 1..Len(runs) : ConfigWritten(i)
    \/ \E i \in 1..Len(runs) : ChildClosed(i)
    \/ \E i \in 1..Len(runs) : ConfigUnlinked(i)

Spec == Init /\ [][Next]_vars

\* timers fire, and linters, file operations and the bundler complete
Fairness ==
    /\ WF_vars(\E t \in timers : TimerFires(t))
    /\ WF_vars(\E i \in 1..Len(runs) : LinterReturns(i))
    /\ WF_vars(\E i \in 1..Len(runs) : ConfigWritten(i))
    /\ WF_vars(\E i \in 1..Len(runs) : ChildClosed(i))
    /\ WF_vars(\E i \in 1..Len(runs) : ConfigUnlinked(i))

FairSpec == Spec /\ Fairness

\* ------------------------------------------------------------------ claims
HandlerRuns == SelectSeq(runs, LAMBDA r : r.owner = "handler")

AllLintPassed(l) == \A k \in 1..Len(l) : l[k].ok

NoDuplicates(q) == \A a, b \in 1..Len(q) : q[a] = q[b] => a = b

AnEvent == \E p \in EventPaths : WatcherAll(p)

ATimerFires == \E t \in timers : TimerFires(t)

\* C1: in watch mode at most one singleRun invocation started by handler is in
\* flight in every reachable state: handler never starts a run while the
\* previous one has not ended.
C1_OneRunInFlight == Len(HandlerRuns) <= 1

\* C1's case: a second handler call is in flight and a change arrived during it
C1_Witness ==
    /\ Len(HandlerRuns) = 1 /\ summary.shown /\ need /\ running
    /\ runs[1].pc = "unlink"

\* C2: every change event accepted while ready is true is followed by a run
\* that starts after it (need is set by the event and cleared only when
\* handler starts), given that timers fire and runs complete.
C2_EveryChangeServed == (ready /\ need) ~> ~need

\* C3: in watch mode a run whose bundler output does not parse still leaves
\* the controller idle (running false, idle banner written), so that a later
\* change starts a new run.
C3_FailedRunReturnsToIdle ==
    \A k \in 1..Len(finished) :
        (finished[k].owner = "handler" /\ finished[k].pass2Calls = 1
            /\ ~finished[k].out.json)
        => (~running /\ idle /\ ~exited)

\* C4: a change event accepted while ready is true and no run is in flight
\* leaves exactly one timer outstanding, the one it scheduled with the settle
\* delay (the earlier events' timers are cancelled), and the firing of that
\* timer starts the burst's one run and leaves no timer behind.
C4_BurstStartsOneRun ==
    [][ /\ (AnEvent /\ ready /\ Len(runs) = 0)
            => (timers' = {[id |-> timer', delay |-> SettleDelay]})
        /\ (ATimerFires /\ Len(runs) = 0)
            => (timers' = {} /\ Len(runs') = 1) ]_vars

\* C5: a change event while running is true schedules no timer and sets need;
\* when the current run then ends, exactly one zero-delay timer is scheduled,
\* whose firing starts the one further run and clears need.
C5_OneRerunAfterRun ==
    [][ /\ (AnEvent /\ ready /\ running) => (timers' = timers /\ need')
        /\ (Len(HandlerRuns) = 1 /\ Len(runs') = 0 /\ need)
            => (~running' /\ timers' = {[id |-> timer', delay |-> ImmediateDelay]})
        /\ ATimerFires => (~need' /\ timers' = {}) ]_vars

\* C6: the first handler call writes no "files changed" block; every later
\* call writes one that lists, each once, exactly the paths of the events
\* accepted since the previous handler call started.
C6_SummaryListsAccepted ==
    [][ ATimerFires =>
          IF ~called
          THEN ~summary'.shown
          ELSE /\ summary'.shown
               /\ NoDuplicates(summary'.files)
               /\ Range(summary'.files) = {PathRelative(Cwd, p) : p \in accepted}
               /\ summary'.count = Cardinality(accepted) ]_vars

\* C6's case: a later run has listed two distinct changed files
C6_Witness ==
    /\ called /\ summary.shown /\ Len(summary.files) = 2
    /\ summary.files[1] # summary.files[2]

\* C7: in one singleRun invocation Pass2 is entered exactly once when all five
\* linters returned true, and never when at least one returned false.
C7_BundlerOnceIffLintPassed ==
    /\ \A k \in 1..Len(finished) :
          /\ Len(finished[k].lint) = Len(Linters)
          /\ finished[k].pass2Calls =
                (IF AllLintPassed(finished[k].lint) THEN 1 ELSE 0)
    /\ \A i \in 1..Len(runs) :
          /\ runs[i].pc = "lint" => runs[i].pass2Calls = 0
          /\ runs[i].pc # "lint" =>
                /\ Len(runs[i].lint) = Len(Linters)
                /\ AllLintPassed(runs[i].lint)
                /\ runs[i].pass2Calls = 1

\* C7's case: a run ended without bundling because an early linter failed
\* although the last one passed
C7_Witness ==
    /\ Len(finished) = 1
    /\ ~finished[1].lint[1].ok /\ finished[1].lint[5].ok
    /\ finished[1].pass2Calls = 0

C9_UnparseableResolvesFalse ==
    \A k \in 1..Len(finished) :
        (finished[k].pass2Calls = 1 /\ ~finished[k].out.json)
        => /\ finished[k].raw
           /\ finished[k].outcome = "resolved"
           /\ ~Truthy(finished[k].passed)

\* C10: with an env value other than exactly "production" or "development"
\* the command rejects and has had no effect: no header, no chdir, no watch,
\* no run, no timer, no configuration file.
C10_InvalidEnvNoEffect ==
    (opts.env \notin {<<"production">>, <<"development">>}) =>
        /\ pc \in {"entry", "rejected"}
        /\ ~header /\ cwd = "." /\ ~watcher
        /\ Len(runs) = 0 /\ Len(finished) = 0
        /\ timers = {} /\ ~wpcFile /\ ~ready

\* C10's case: an env value that contains a valid word was rejected, with
\* --cwd and --watch given
C10_Witness ==
    /\ pc = "rejected"
    /\ opts.env = <<"production", "staging">>
    /\ opts.cwd = "app" /\ opts.watch

LintOrder(l) == [k \in 1..Len(l) |-> l[k].ctx]

Bundling == \E i \in 1..Len(runs) : runs[i].pc \in {"child", "unlink"}

\* C11: in every singleRun invocation the five linters are called once each,
\* in the order JS, HTML, CSS, YAML, JSON, whatever flags the earlier ones
\* returned: a run that has left Pass1 has called all five.
C11_AllLintersRunInOrder ==
    /\ \A k \in 1..Len(finished) : LintOrder(finished[k].lint) = Linters
    /\ \A i \in 1..Len(runs) :
          /\ LintOrder(runs[i].lint) = SubSeq(Linters, 1, runs[i].rounds)
          /\ runs[i].pc # "lint" => LintOrder(runs[i].lint) = Linters

\* C11's case: the first two linters failed and the other three were still run
C11_Witness ==
    /\ Len(finished) = 1
    /\ ~finished[1].lint[1].ok /\ ~finished[1].lint[2].ok
    /\ LintOrder(finished[1].lint) = Linters

\* C12: the temporary bundler configuration exists only while a bundler
\* invocation is in progress: it is there while the bundler runs and gone
\* when Pass2 has ended, whatever the exit code and the output were.
C12_ConfigOnlyWhileBundling ==
    /\ wpcFile => Bundling
    /\ \A i \in 1..Len(runs) : runs[i].pc = "child" => wpcFile
    /\ Len(runs) = 0 => ~wpcFile

\* C12's case: Pass2 ended on unparseable output and a non-zero exit code
C12_Witness ==
    /\ Len(finished) = 1 /\ Len(runs) = 0 /\ ~wpcFile
    /\ finished[1].pass2Calls = 1 /\ ~finished[1].out.json /\ finished[1].code = 2

\* C13: how a bundler invocation ends is a function of its output alone:
\* resolved with (no errors and no warnings) when the output parses, whatever
\* the exit code was, so equal reports with different exit codes end alike.
C13_ResultIgnoresExitCode ==
    \A k \in 1..Len(finished) :
        finished[k].pass2Calls = 1 =>
            LET f == finished[k]
            IN  /\ f.outcome = (IF f.out.json THEN "resolved" ELSE "rejected")
                /\ f.out.json =>
                     (Truthy(f.passed) <=> (f.out.errors = 0 /\ f.out.warnings = 0))

\* C13's case: a clean report from a bundler that exited with a non-zero code
C13_Witness ==
    /\ Len(finished) = 1 /\ finished[1].pass2Calls = 1
    /\ finished[1].code = 2 /\ finished[1].out.json
    /\ finished[1].out.errors = 0 /\ finished[1].out.warnings = 0
    /\ Truthy(finished[1].passed)

\* C14: in watch mode running is true exactly when a singleRun invocation
\* started by handler is in flight, also after one that ended by failing.
C14_RunningIffInFlight == running <=> (Len(HandlerRuns) = 1)

\* C15: at most one timer is outstanding, and it is the one the variable
\* timer holds: whoever schedules a timer has cancelled the previous one.
C15_OneTimer ==
    /\ Cardinality(timers) <= 1
    /\ \A t \in timers : t.id = timer

\* C15's case: a change event has replaced the timer set by watcher-ready
C15_Witness ==
    /\ ready /\ ~called /\ anyEvent
    /\ timers = {[id |-> timer, delay |-> SettleDelay]}

\* C16: while running is true no timer is outstanding.
C16_NoTimerWhileRunning == running => timers = {}

\* C16's case: two files changed while the bundler of a run was working
C16_Witness ==
    /\ running /\ Len(runs) = 1 /\ runs[1].pc = "child"
    /\ need /\ Len(changed) = 2 /\ timers = {}

\* C17 (first half): after watcher-ready a first run eventually starts.
C17_FirstRunStarts == ready ~> called

\* C17 (second half): if no filesystem event is ever delivered, handler is
\* called once only, and when its run has ended the controller is idle
\* (running false, idle banner written) with no timer outstanding.
C17_OneRunThenIdle ==
    (~anyEvent /\ called /\ Len(runs) = 0) =>
        (~running /\ idle /\ timers = {} /\ ~exited)

\* C18: from the start of a run until the next accepted change event no
\* timer is outstanding, so the end of a run during which nothing changed
\* schedules nothing and no further run starts.
C18_NoSpuriousRerun == (called /\ accepted = {}) => timers = {}

\* C18's case: a second run has ended with no change since it started
C18_Witness ==
    /\ called /\ accepted = {} /\ summary.shown
    /\ Len(runs) = 0 /\ idle /\ ~running /\ ~need

\* C19 (as claimed): whenever the first run begins, the ChangeSet is empty.
C19_FirstRunStartsEmpty == [][(ATimerFires /\ ~called) => changed = <<>>]_vars

\* C19 (amended): before the first run begins the ChangeSet holds exactly the
\* paths accepted since watcher-ready; it is empty while the zero-delay timer
\* of watcher-ready is the outstanding one, and non-empty once a change event
\* has replaced that timer by its settle-delay timer.  The first run writes
\* no summary and starts from an empty ChangeSet.
C19_FirstRunClearsAccepted ==
    /\ (ready /\ ~called) =>
          /\ Range(changed) = accepted
          /\ timers = {[id |-> timer,
                        delay |-> IF changed = <<>> THEN ImmediateDelay
                                  ELSE SettleDelay]}
    /\ (called /\ ~summary.shown) => Range(changed) = accepted

\* C19's case: the first run is about to be started by a change event's timer
C19_Witness ==
    /\ ready /\ ~called /\ Len(changed) = 2
    /\ \A t \in timers : t.delay = SettleDelay

\* C20: an event delivered while ready is false changes nothing of the
\* controller's state; ready becomes true only by watcher-ready and never
\* becomes false again.
C20_EventBeforeReadyIgnored ==
    [][ /\ (AnEvent /\ ~ready) =>
              UNCHANGED << first, ready, need, changed, timer, running, timers >>
        /\ ready => ready'
        /\ (~ready /\ ready') => WatcherReady ]_vars

\* C20's case: an event was delivered before watcher-ready
C20_Witness == watcher /\ anyEvent /\ ~ready /\ ~need /\ changed = <<>>

\* C21: in one-time mode the command performs exactly one singleRun
\* invocation and, when it has ended, has resolved with the empty string,
\* whether the run passed or linting or bundling failed; it never rejects.
C21_OneShotResolvesEmpty ==
    (~opts.watch /\ opts.env \in {<<"production">>, <<"development">>}) =>
        /\ pc \in {"entry", "oneshot", "resolved"}
        /\ pc = "entry" => (Len(runs) = 0 /\ Len(finished) = 0)
        /\ pc = "oneshot" => (Len(runs) = 1 /\ Len(finished) = 0 /\ result = <<>>)
        /\ pc = "resolved" =>
             (Len(runs) = 0 /\ Len(finished) = 1 /\ result = <<"">>)

====
